---- MODULE Spec2Model ----
(***************************************************************************)
(* Model of the storefront's backend operations over the document store:  *)
(* the product catalog (lib/firebase/products), the per-customer cart     *)
(* (lib/firebase/cart) and checkout (lib/firebase/orders).                *)
(*                                                                         *)
(* Every `await` of a backend call is one atomic step of the call that    *)
(* issues it; the synchronous code that follows, up to the next await,    *)
(* belongs to the same step, so that the seller's operations (and calls   *)
(* in other slots) interleave with a call exactly at its awaits.  A       *)
(* backend call may fail; what the code does with the failure (rethrow,   *)
(* or swallow as in getProductById) is modelled.  The product documents   *)
(* carry the fields the cart and checkout code reads: name, price, stock. *)
(*                                                                         *)
(* The front end is the authentication context (lib/contexts/auth-context) *)
(* and the route guard (components/auth/protected-route): the context's    *)
(* three state cells, the listener callbacks suspended at their await, the *)
(* route the browser shows and what the guard of that route renders; the   *)
(* cart page (its displayed lines, modal, error and the handlers suspended *)
(* at a backend call) and the product detail page (product and quantity).  *)
(***************************************************************************)
EXTENDS Integers, Sequences, FiniteSets, TLC

\* ---------------------------------------------------------------- bounds
MaxStock == 2          \* largest stock a seller enters
MaxPrice == 2          \* largest price a seller enters
MaxQty == 2            \* largest quantity argument of addToCart
MaxSellerOps == 1      \* seller operations in one behaviour
MaxCalls == 2          \* customer calls started in one behaviour
MaxAuthEvents == 3     \* auth-state changes the listener is told of in one behaviour

Users == {"u1", "u2"}            \* customer identities
ProductIds == {1, 2}             \* document ids the product collection hands out
Names == {"A", "B"}              \* product names a seller enters
Slots == {1, 2}                  \* calls that can be in flight at once

\* ---------------------------------------------------------------- values
Null == [null |-> TRUE]          \* getProductById's null / a missing document

NoErr == [kind |-> "none", name |-> "", available |-> 0, requested |-> 0]

PlainErr(k) == [kind |-> k, name |-> "", available |-> 0, requested |-> 0]

\* (a generic error thrown for a missing product)
NotFoundErr_generic(n) == [kind |-> "backend", name |-> "", available |-> 0, requested |-> 0]

NotFoundErr(n) == [kind |-> "notfound", name |-> n, available |-> 0, requested |-> 0]

InsufficientErr(n, a, r) == [kind |-> "insufficient", name |-> n, available |-> a, requested |-> r]

VARIABLES
  products,    \* products/{id}: product document or Null
  created,     \* number of product ids handed out by addDoc
  carts,       \* carts/{uid}/items/{productId}: cart item document or Null
  orders,      \* orders collection, in creation order; the id is the index
  call,        \* per slot: the call in flight, its position and locals
  sellerOps,   \* seller operations performed so far
  calls,       \* customer calls started so far
  auth,        \* AuthProvider: user, userProfile, loading; the listener's callbacks
  page,        \* the route shown and what its ProtectedRoute renders
  cartPage,    \* CartContent: its state cells and suspended handlers
  productPage  \* ProductDetailContent: product, quantity, error

vars == <<products, created, carts, orders, call, sellerOps, calls, auth, page,
          cartPage, productPage>>

db == <<products, created, carts, orders>>

shop == <<products, created, carts, orders, call, sellerOps, calls>>

pages == <<cartPage, productPage>>

ui == <<auth, page, cartPage, productPage>>

\* A slot's record: the call's arguments (op, uid, pid, qty), its position pc,
\* its locals, its outcome (err), and three history fields: the writes it has
\* completed so far, the stock of every product when it started, and the cart
\* line it is about as it was when it started.
Idle ==
  [op |-> "none", pc |-> "idle", uid |-> "", pid |-> 0, qty |-> 0,
   product |-> Null, newQuantity |-> 0, items |-> <<>>, idx |-> 0, orderItems |-> <<>>,
   totalAmount |-> 0, orderId |-> 0, batch |-> <<>>, refs |-> {},
   err |-> NoErr, writes |-> <<>>, stock0 |-> <<>>, line0 |-> Null,
   productIds |-> {}]

\* the name the seller gave product p when adding it
NameOf(p) == IF p = 1 THEN "A" ELSE "B"

ProductDocs == [name : Names, price : 1..MaxPrice, stock : 1..MaxStock]

Min(a, b) == IF a < b THEN a ELSE b

\* stock of every product, -1 for a missing one (history only)
StockNow == [p \in ProductIds |-> IF products[p] = Null THEN -1 ELSE products[p].stock]

\* the role in the profile document written when user u registered
RoleOf(u) == IF u = "u1" THEN "customer" ELSE "seller"

\* AuthProvider's state when it mounts (useState initial values), with the
\* backend's session (signed out) and no listener callback suspended
AuthProvider ==
  [session |-> Null, user |-> Null, userProfile |-> Null, loading |-> TRUE,
   fetching |-> [u \in Users |-> 0], events |-> 0]

\* CartContent's state when no cart page is open
CartContent ==
  [uid |-> "", loading |-> FALSE, cartItems |-> [p \in ProductIds |-> Null],
   modal |-> "none", checkingOut |-> FALSE, error |-> [kind |-> "", names |-> {}],
   awaiting |-> [s \in Slots |-> "none"], loads |-> 0, loadFailed |-> FALSE]

\* ProductDetailContent's state when no product page is open
ProductDetailContent ==
  [uid |-> "", pid |-> 0, product |-> Null, loading |-> FALSE, quantity |-> 1,
   adding |-> FALSE, error |-> "", changed |-> FALSE]

\* The shop some time after opening: the first product is on sale, the second
\* is on sale, was deleted, or was never added; customer u1 holds cart lines
\* whose snapshot is the product as it is now (or as it was last, if deleted).
InitShop ==
  /\ \E stock \in [ProductIds -> 0..MaxStock] :
       /\ stock[1] > 0
       /\ products = [p \in ProductIds |->
            IF stock[p] = 0 THEN Null
            ELSE [name |-> NameOf(p), price |-> p, stock |-> stock[p]]]
  /\ \E quantity \in [ProductIds -> 0..Min(MaxQty, MaxStock)] :
       carts = [u \in Users |-> [p \in ProductIds |->
            IF u # "u1" \/ quantity[p] = 0 THEN Null
            ELSE [productId |-> p,
                  product |-> IF products[p] # Null THEN products[p]
                              ELSE [name |-> NameOf(p), price |-> p, stock |-> MaxStock],
                  quantity |-> quantity[p]]]]
  /\ created \in {n \in 1..Cardinality(ProductIds) :
                   \A p \in ProductIds :
                     (products[p] # Null \/ carts["u1"][p] # Null) => p <= n}
  /\ orders = <<>>
  /\ call = [s \in Slots |-> Idle]
  /\ sellerOps = 0
  /\ calls = 0
  /\ auth = AuthProvider
  /\ page = [location |-> "/login", shown |-> "login", effectDue |-> FALSE]
  /\ cartPage = CartContent
  /\ productPage = ProductDetailContent

\* ------------------------------------------------------------- helpers
\* getProductById: the document, or null when it does not exist; a backend
\* failure is caught and also returned as null.
GetProductByIdResults(p) == {products[p], Null}

\* the call rejects: its locals are gone, the error and the history stay
Fail(s, e) ==
  call' = [call EXCEPT ![s] =
    [Idle EXCEPT !.op = call[s].op, !.uid = call[s].uid, !.pc = "failed", !.err = e,
                 !.orderId = call[s].orderId, !.writes = call[s].writes,
                 !.stock0 = call[s].stock0]]

\* a new call runs in the first free slot
FreeSlot(s) ==
  /\ call[s].pc = "idle"
  /\ \A t \in Slots : t < s => call[t].pc # "idle"
  /\ calls < MaxCalls

\* ------------------------------------------------------- seller: products
addProduct(n, pr, st) ==
  /\ sellerOps < MaxSellerOps
  /\ created < Cardinality(ProductIds)
  /\ LET id == created + 1 IN
       /\ products' = [products EXCEPT ![id] = [name |-> n, price |-> pr, stock |-> st]]
       /\ created' = id
  /\ sellerOps' = sellerOps + 1
  /\ UNCHANGED <<carts, orders, call, calls, ui>>

\* updates is a partial product: a function from some of the fields to values
ApplyUpdates(doc, updates) ==
  [f \in DOMAIN doc |-> IF f \in DOMAIN updates THEN updates[f] ELSE doc[f]]

UpdateSets ==
  [{"name"} -> Names] \cup [{"price"} -> 1..MaxPrice] \cup [{"stock"} -> 1..MaxStock]

updateProduct(p, updates) ==
  /\ sellerOps < MaxSellerOps
  /\ products[p] # Null          \* updateDoc rejects a missing document
  /\ ApplyUpdates(products[p], updates) # products[p]
  /\ products' = [products EXCEPT ![p] = ApplyUpdates(@, updates)]
  /\ sellerOps' = sellerOps + 1
  /\ UNCHANGED <<created, carts, orders, call, calls, ui>>

deleteProduct(p) ==
  /\ sellerOps < MaxSellerOps
  /\ products[p] # Null
  /\ products' = [products EXCEPT ![p] = Null]
  /\ sellerOps' = sellerOps + 1
  /\ UNCHANGED <<created, carts, orders, call, calls, ui>>

\* -------------------------------------------- seller: deleteMultipleProducts
\* cart.ts lines 675-677: one deleteProduct promise per id, all started at
\* once and handed to Promise.all (refs: the promises not yet settled)
deleteMultipleProducts(s, productIds) ==
  /\ FreeSlot(s)
  /\ calls' = calls + 1
  /\ call' = [call EXCEPT ![s] =
       [Idle EXCEPT !.op = "deleteMultipleProducts", !.productIds = productIds,
                    !.refs = productIds, !.stock0 = StockNow,
                    !.pc = IF productIds = {} THEN "done" ELSE "dmp_all"]]
  /\ UNCHANGED <<db, sellerOps, ui>>

\* (a rejection undoes the deletes the request has made so far)
deleteProductSettles_rollback(s, p) ==
  LET c == call[s] IN
  /\ c.op = "deleteMultipleProducts"
  /\ p \in c.refs
  /\ \/ /\ products' = [q \in ProductIds |->
                          IF q \in c.productIds /\ c.stock0[q] >= 0
                            THEN [name |-> NameOf(q), price |-> q, stock |-> c.stock0[q]]
                            ELSE products[q]]
        /\ call' = [call EXCEPT ![s] =
             [c EXCEPT !.refs = {},
                       !.pc = IF c.pc = "dmp_all" THEN "failed" ELSE @,
                       !.err = IF c.pc = "dmp_all" THEN PlainErr("backend") ELSE @]]
     \/ /\ products' = [products EXCEPT ![p] = Null]
        /\ call' = [call EXCEPT ![s] =
             [c EXCEPT !.refs = @ \ {p},
                       !.pc = IF c.pc = "dmp_all" /\ c.refs = {p} THEN "done" ELSE @]]
  /\ UNCHANGED <<created, carts, orders, sellerOps, calls, ui>>

\* cart.ts lines 654-668 under Promise.all (line 677): the deleteProduct of one
\* id settles. It rejects (image delete or deleteDoc failed) and the first
\* rejection rejects deleteMultipleProducts, or it deletes the document and
\* the last fulfilment fulfils deleteMultipleProducts. The other promises go
\* on either way.
deleteProductSettles(s, p) ==
  LET c == call[s] IN
  /\ c.op = "deleteMultipleProducts"
  /\ p \in c.refs
  /\ \/ /\ UNCHANGED products
        /\ call' = [call EXCEPT ![s] =
             [c EXCEPT !.refs = @ \ {p},
                       !.pc = IF c.pc = "dmp_all" THEN "failed" ELSE @,
                       !.err = IF c.pc = "dmp_all" THEN PlainErr("backend") ELSE @]]
     \/ /\ products' = [products EXCEPT ![p] = Null]
        /\ call' = [call EXCEPT ![s] =
             [c EXCEPT !.refs = @ \ {p},
                       !.pc = IF c.pc = "dmp_all" /\ c.refs = {p} THEN "done" ELSE @]]
  /\ UNCHANGED <<created, carts, orders, sellerOps, calls, ui>>

\* the caller has the outcome and every promise of the request has settled
deleteMultipleProductsReturn(s) ==
  /\ call[s].op = "deleteMultipleProducts"
  /\ call[s].refs = {}
  /\ call[s].pc \in {"done", "failed"}
  /\ call' = [call EXCEPT ![s] = Idle]
  /\ UNCHANGED <<db, sellerOps, calls, ui>>

\* ------------------------------------------------------ customer: addToCart
\* lines 39-51: getProductById, then the two guards
StartAddToCart(s, u, p, q) ==
  /\ FreeSlot(s)
  /\ calls' = calls + 1
  /\ \E product \in GetProductByIdResults(p) :
       LET c == [Idle EXCEPT !.op = "addToCart", !.uid = u, !.pid = p, !.qty = q,
                             !.product = product, !.stock0 = StockNow]
       IN  call' = [call EXCEPT ![s] =
             IF product = Null THEN [c EXCEPT !.pc = "failed", !.err = PlainErr("notfound")]
             ELSE IF product.stock < q
               THEN [c EXCEPT !.pc = "failed", !.err = PlainErr("insufficient")]
               ELSE [c EXCEPT !.pc = "atc_getDoc"]]
  /\ UNCHANGED <<db, sellerOps>>

addToCartGetProduct(s, u, p, q) == StartAddToCart(s, u, p, q) /\ UNCHANGED ui

\* (the line's quantity replaced by the argument)
MergedQuantity_overwrite(existingItem, quantity) == quantity

\* line 57: the quantity an existing line gets
MergedQuantity(existingItem, quantity) == existingItem.quantity + quantity

\* line 60: the merged quantity against the product read at line 41
ExceedsStock(newQuantity, product) == newQuantity > product.stock

\* lines 52-62: getDoc of the cart item, the merge and its guard
addToCartGetDoc(s) ==
  LET c == call[s] IN
  /\ c.pc = "atc_getDoc"
  /\ \/ Fail(s, PlainErr("backend"))
     \/ LET snap == carts[c.uid][c.pid] IN
        IF snap # Null
          THEN LET newQuantity == MergedQuantity(snap, c.qty) IN
               IF ExceedsStock(newQuantity, c.product)
                 THEN Fail(s, PlainErr("insufficient"))
                 ELSE call' = [call EXCEPT ![s] =
                        [c EXCEPT !.pc = "atc_updateDoc", !.newQuantity = newQuantity]]
          ELSE call' = [call EXCEPT ![s] = [c EXCEPT !.pc = "atc_setDoc"]]
  /\ UNCHANGED <<db, sellerOps, calls, ui>>

\* (the quantity raised in place by the added amount, as an atomic increment)
addToCartUpdateDoc_increment(s) ==
  LET c == call[s] IN
  /\ c.pc = "atc_updateDoc"
  /\ \/ Fail(s, PlainErr("backend")) /\ UNCHANGED carts
     \/ /\ carts[c.uid][c.pid] # Null
        /\ carts' = [carts EXCEPT ![c.uid][c.pid].quantity = @ + c.qty]
        /\ call' = [call EXCEPT ![s] = [c EXCEPT !.pc = "done"]]
     \/ /\ carts[c.uid][c.pid] = Null     \* updateDoc on a missing document
        /\ Fail(s, PlainErr("backend"))
        /\ UNCHANGED carts
  /\ UNCHANGED <<products, created, orders, sellerOps, calls, ui>>

\* lines 64-72: updateDoc of the existing cart item
addToCartUpdateDoc(s) ==
  LET c == call[s] IN
  /\ c.pc = "atc_updateDoc"
  /\ \/ Fail(s, PlainErr("backend")) /\ UNCHANGED carts
     \/ /\ carts[c.uid][c.pid] # Null
        /\ carts' = [carts EXCEPT ![c.uid][c.pid].quantity = c.newQuantity]
        /\ call' = [call EXCEPT ![s] = [c EXCEPT !.pc = "done"]]
     \/ /\ carts[c.uid][c.pid] = Null     \* updateDoc on a missing document
        /\ Fail(s, PlainErr("backend"))
        /\ UNCHANGED carts
  /\ UNCHANGED <<products, created, orders, sellerOps, calls, ui>>

\* (the line filled with the product document as it is at write time)
addToCartSetDoc_current(s) ==
  LET c == call[s] IN
  /\ c.pc = "atc_setDoc"
  /\ \/ Fail(s, PlainErr("backend")) /\ UNCHANGED carts
     \/ /\ carts' = [carts EXCEPT ![c.uid][c.pid] =
                       [productId |-> c.pid, product |-> products[c.pid], quantity |-> c.qty]]
        /\ call' = [call EXCEPT ![s] = [c EXCEPT !.pc = "done"]]
  /\ UNCHANGED <<products, created, orders, sellerOps, calls, ui>>

\* lines 74-84: setDoc of a new cart item
addToCartSetDoc(s) ==
  LET c == call[s] IN
  /\ c.pc = "atc_setDoc"
  /\ \/ Fail(s, PlainErr("backend")) /\ UNCHANGED carts
     \/ /\ carts' = [carts EXCEPT ![c.uid][c.pid] =
                       [productId |-> c.pid, product |-> c.product, quantity |-> c.qty]]
        /\ call' = [call EXCEPT ![s] = [c EXCEPT !.pc = "done"]]
  /\ UNCHANGED <<products, created, orders, sellerOps, calls, ui>>

\* ------------------------------------------ customer: updateCartItemQuantity
\* (zero kept as a quantity)
RemovesLine_negative(quantity) == quantity < 0

\* line 133
RemovesLine(quantity) == quantity <= 0

\* (a quantity equal to the stock refused)
OverStock_atLeast(quantity, product) == quantity >= product.stock

\* line 145
OverStock(quantity, product) == quantity > product.stock

\* lines 131-147: deleteDoc of the line when the quantity is not positive;
\* otherwise getProductById and the two guards
StartUpdateCartItemQuantity(s, u, p, q) ==
  /\ FreeSlot(s)
  /\ calls' = calls + 1
  /\ LET c == [Idle EXCEPT !.op = "updateCartItemQuantity", !.uid = u, !.pid = p,
                           !.qty = q, !.stock0 = StockNow, !.line0 = carts[u][p]]
     IN  IF RemovesLine(q)
           THEN \/ /\ call' = [call EXCEPT ![s] =
                        [c EXCEPT !.pc = "failed", !.err = PlainErr("backend")]]
                   /\ UNCHANGED carts
                \/ /\ carts' = [carts EXCEPT ![u][p] = Null]
                   /\ call' = [call EXCEPT ![s] = [c EXCEPT !.pc = "done"]]
           ELSE /\ UNCHANGED carts
                /\ \E product \in GetProductByIdResults(p) :
                     call' = [call EXCEPT ![s] =
                       IF product = Null
                         THEN [c EXCEPT !.pc = "failed", !.err = PlainErr("notfound")]
                       ELSE IF OverStock(q, product)
                         THEN [c EXCEPT !.pc = "failed", !.err = PlainErr("insufficient")]
                         ELSE [c EXCEPT !.pc = "ucq_updateDoc", !.product = product]]
  /\ UNCHANGED <<products, created, orders, sellerOps>>

updateCartItemQuantity(s, u, p, q) == StartUpdateCartItemQuantity(s, u, p, q) /\ UNCHANGED ui

\* lines 149-152: updateDoc of the line; it rejects when the line is missing
updateCartItemQuantityUpdateDoc(s) ==
  LET c == call[s] IN
  /\ c.pc = "ucq_updateDoc"
  /\ \/ Fail(s, PlainErr("backend")) /\ UNCHANGED carts
     \/ /\ carts[c.uid][c.pid] # Null
        /\ carts' = [carts EXCEPT ![c.uid][c.pid].quantity = c.qty]
        /\ call' = [call EXCEPT ![s] = [c EXCEPT !.pc = "done"]]
     \/ /\ carts[c.uid][c.pid] = Null
        /\ Fail(s, PlainErr("backend"))
        /\ UNCHANGED carts
  /\ UNCHANGED <<products, created, orders, sellerOps, calls, ui>>

\* ------------------------------------------------- customer: checkout
\* The sequences getDocs may hand back for a cart: its lines, in an order the
\* backend chooses.
RECURSIVE SeqsOf(_)
SeqsOf(S) ==
  IF S = {} THEN {<<>>}
  ELSE UNION {{<<x>> \o t : t \in SeqsOf(S \ {x})} : x \in S}

getCartItems(u) ==
  SeqsOf({carts[u][p] : p \in {q \in ProductIds : carts[u][q] # Null}})

\* ------------------------------------------------ customer: getAllProducts
\* cart.ts lines 560-566: a product document with its id. createdAt is the
\* Timestamp.now() of addProduct; ids are handed out in creation order, so the
\* id stands for the creation time.
ProductWithId(p) ==
  [id |-> p, name |-> products[p].name, price |-> products[p].price,
   stock |-> products[p].stock, createdAt |-> p]

\* (sold-out products let through)
InStock_zeroToo(product) == product.stock >= 0

\* cart.ts line 569
InStock(product) == product.stock > 0

\* cart.ts lines 572-576, the comparator bTime - aTime under the stable
\* Array.prototype.sort: x goes behind every element at least as new
InsertNewestFirst(sorted, x) ==
  LET keep == {i \in 1..Len(sorted) : sorted[i].createdAt >= x.createdAt}
      n == Cardinality(keep)
  IN  SubSeq(sorted, 1, n) \o <<x>> \o SubSeq(sorted, n + 1, Len(sorted))

RECURSIVE SortNewestFirst(_)
SortNewestFirst(seq) ==
  IF seq = <<>> THEN <<>>
  ELSE InsertNewestFirst(SortNewestFirst(SubSeq(seq, 1, Len(seq) - 1)), seq[Len(seq)])

\* cart.ts lines 553-583: what getAllProducts can return now; getDocs hands
\* the documents back in an order the backend chooses
getAllProducts ==
  {SortNewestFirst(SelectSeq(docs, InStock)) :
     docs \in SeqsOf({ProductWithId(p) : p \in {q \in ProductIds : products[q] # Null}})}

\* where a loop over seq goes: into its body, or past it when seq is empty
LoopOver(seq, body, after) == IF Len(seq) = 0 THEN after ELSE body

\* (the guard left out)
EmptyCart_never(cartItems) == FALSE

\* line 37
EmptyCart(cartItems) == Len(cartItems) = 0

\* (the line's own snapshot consulted instead of the product just read)
InsufficientStock_snapshot(product, cartItem) ==
  cartItem.product.stock < cartItem.quantity

\* line 52
InsufficientStock(product, cartItem) == product.stock < cartItem.quantity

\* (name and price taken from the cart line's own snapshot)
OrderItemOf_snapshot(product, cartItem) ==
  [productId |-> cartItem.productId,
   productName |-> cartItem.product.name,
   quantity |-> cartItem.quantity,
   priceAtPurchase |-> cartItem.product.price,
   subtotal |-> cartItem.product.price * cartItem.quantity]

\* lines 58-67
OrderItemOf(product, cartItem) ==
  [productId |-> cartItem.productId,
   productName |-> product.name,
   quantity |-> cartItem.quantity,
   priceAtPurchase |-> product.price,
   subtotal |-> product.price * cartItem.quantity]

\* (= written for +=)
AddToTotal_assign(totalAmount, subtotal) == subtotal

\* line 69
AddToTotal(totalAmount, subtotal) == totalAmount + subtotal

\* (the cart cleared right after the order is stored)
AfterAddDoc_clearFirst(orderItems) == "co_clearGetDocs"

\* lines 81-86: after addDoc comes the loop that fills the stock batch
AfterAddDoc(orderItems) == LoopOver(orderItems, "co_batchRead", "co_commit")

\* lines 88-94: the update a re-read product contributes to the batch
StockUpdates(product, item) ==
  IF product # Null
    THEN <<[productId |-> item.productId, stock |-> product.stock - item.quantity]>>
    ELSE <<>>

\* lines 35-39: getCartItems and the empty-cart guard
StartCreateOrder(s, u) ==
  /\ FreeSlot(s)
  /\ calls' = calls + 1
  /\ LET c == [Idle EXCEPT !.op = "checkout", !.uid = u, !.stock0 = StockNow] IN
       \/ call' = [call EXCEPT ![s] = [c EXCEPT !.pc = "failed", !.err = PlainErr("cartread")]]
       \/ \E cartItems \in getCartItems(u) :
            call' = [call EXCEPT ![s] =
              IF EmptyCart(cartItems)
                THEN [c EXCEPT !.pc = "failed", !.err = PlainErr("empty")]
                ELSE [c EXCEPT !.pc = LoopOver(cartItems, "co_validate", "co_addDoc"),
                               !.items = cartItems, !.idx = 1]]
  /\ UNCHANGED <<db, sellerOps>>

createOrderGetCart(s, u) == StartCreateOrder(s, u) /\ UNCHANGED ui

\* (each order line put in front of the lines built so far)
createOrderValidate_unshift(s) ==
  LET c == call[s]
      cartItem == c.items[c.idx]
  IN
  /\ c.pc = "co_validate"
  /\ \E product \in GetProductByIdResults(cartItem.productId) :
       IF product = Null THEN Fail(s, NotFoundErr(cartItem.product.name))
       ELSE IF InsufficientStock(product, cartItem)
         THEN Fail(s, InsufficientErr(product.name, product.stock, cartItem.quantity))
         ELSE LET orderItem == OrderItemOf(product, cartItem) IN
              call' = [call EXCEPT ![s] =
                [c EXCEPT !.orderItems = <<orderItem>> \o @,
                          !.totalAmount = AddToTotal(@, orderItem.subtotal),
                          !.idx = @ + 1,
                          !.pc = IF c.idx = Len(c.items) THEN "co_addDoc" ELSE "co_validate"]]
  /\ UNCHANGED <<db, sellerOps, calls, ui>>

\* lines 45-70: one iteration of the validation loop
createOrderValidate(s) ==
  LET c == call[s]
      cartItem == c.items[c.idx]
  IN
  /\ c.pc = "co_validate"
  /\ \E product \in GetProductByIdResults(cartItem.productId) :
       IF product = Null THEN Fail(s, NotFoundErr(cartItem.product.name))
       ELSE IF InsufficientStock(product, cartItem)
         THEN Fail(s, InsufficientErr(product.name, product.stock, cartItem.quantity))
         ELSE LET orderItem == OrderItemOf(product, cartItem) IN
              call' = [call EXCEPT ![s] =
                [c EXCEPT !.orderItems = Append(@, orderItem),
                          !.totalAmount = AddToTotal(@, orderItem.subtotal),
                          !.idx = @ + 1,
                          !.pc = IF c.idx = Len(c.items) THEN "co_addDoc" ELSE "co_validate"]]
  /\ UNCHANGED <<db, sellerOps, calls, ui>>

\* (the order stored under the customer's id, replacing the customer's last)
createOrderAddDoc_replace(s) ==
  LET c == call[s]
      orderData == [customerId |-> c.uid, items |-> c.orderItems,
                    totalAmount |-> c.totalAmount, status |-> "completed"]
      prev == {k \in 1..Len(orders) : orders[k].customerId = c.uid}
      id == IF prev = {} THEN Len(orders) + 1 ELSE CHOOSE k \in prev : TRUE
  IN
  /\ c.pc = "co_addDoc"
  /\ \/ Fail(s, PlainErr("backend")) /\ UNCHANGED orders
     \/ /\ orders' = IF prev = {} THEN Append(orders, orderData)
                     ELSE [orders EXCEPT ![id] = orderData]
        /\ call' = [call EXCEPT ![s] =
             [c EXCEPT !.orderId = id, !.idx = 1,
                       !.pc = AfterAddDoc(c.orderItems),
                       !.writes = Append(@, "order")]]
  /\ UNCHANGED <<products, created, carts, sellerOps, calls, ui>>

\* (the order stored as pending, to be completed later)
createOrderAddDoc_pending(s) ==
  LET c == call[s] IN
  /\ c.pc = "co_addDoc"
  /\ \/ Fail(s, PlainErr("backend")) /\ UNCHANGED orders
     \/ /\ orders' = Append(orders, [customerId |-> c.uid, items |-> c.orderItems,
                                     totalAmount |-> c.totalAmount, status |-> "pending"])
        /\ call' = [call EXCEPT ![s] =
             [c EXCEPT !.orderId = Len(orders) + 1, !.idx = 1,
                       !.pc = AfterAddDoc(c.orderItems),
                       !.writes = Append(@, "order")]]
  /\ UNCHANGED <<products, created, carts, sellerOps, calls, ui>>

\* lines 72-84: addDoc of the order, then the empty batch
createOrderAddDoc(s) ==
  LET c == call[s] IN
  /\ c.pc = "co_addDoc"
  /\ \/ Fail(s, PlainErr("backend")) /\ UNCHANGED orders
     \/ /\ orders' = Append(orders, [customerId |-> c.uid, items |-> c.orderItems,
                                     totalAmount |-> c.totalAmount, status |-> "completed"])
        /\ call' = [call EXCEPT ![s] =
             [c EXCEPT !.orderId = Len(orders) + 1, !.idx = 1,
                       !.pc = AfterAddDoc(c.orderItems),
                       !.writes = Append(@, "order")]]
  /\ UNCHANGED <<products, created, carts, sellerOps, calls, ui>>

\* lines 86-95: one iteration of the loop that fills the batch
createOrderBatchRead(s) ==
  LET c == call[s]
      item == c.orderItems[c.idx]
  IN
  /\ c.pc = "co_batchRead"
  /\ \E product \in GetProductByIdResults(item.productId) :
       call' = [call EXCEPT ![s] =
         [c EXCEPT !.batch = @ \o StockUpdates(product, item),
                   !.idx = @ + 1,
                   !.pc = IF c.idx = Len(c.orderItems) THEN "co_commit" ELSE "co_batchRead"]]
  /\ UNCHANGED <<db, sellerOps, calls, ui>>

\* what a committed batch of updates leaves in the product collection
BatchApply(docs, batch) ==
  [p \in ProductIds |->
     IF \E i \in 1..Len(batch) : batch[i].productId = p
       THEN [docs[p] EXCEPT !.stock =
               batch[CHOOSE i \in 1..Len(batch) : batch[i].productId = p].stock]
       ELSE docs[p]]

\* (a catch that deletes the order again when the batch is rejected)
createOrderCommit_rollback(s) ==
  LET c == call[s] IN
  /\ c.pc = "co_commit"
  /\ \/ Fail(s, PlainErr("backend")) /\ UNCHANGED products
        /\ orders' = SubSeq(orders, 1, c.orderId - 1) \o SubSeq(orders, c.orderId + 1, Len(orders))
     \/ /\ \E i \in 1..Len(c.batch) : products[c.batch[i].productId] = Null
        /\ Fail(s, PlainErr("backend"))
        /\ UNCHANGED <<products, orders>>
     \/ /\ \A i \in 1..Len(c.batch) : products[c.batch[i].productId] # Null
        /\ products' = BatchApply(products, c.batch)
        /\ call' = [call EXCEPT ![s] =
             [c EXCEPT !.pc = "co_clearGetDocs", !.writes = Append(@, "stock")]]
        /\ UNCHANGED orders
  /\ UNCHANGED <<created, carts, sellerOps, calls, ui>>

\* line 97: batch.commit(); an update of a missing document rejects the batch
createOrderCommit(s) ==
  LET c == call[s] IN
  /\ c.pc = "co_commit"
  /\ \/ Fail(s, PlainErr("backend")) /\ UNCHANGED products
     \/ /\ \E i \in 1..Len(c.batch) : products[c.batch[i].productId] = Null
        /\ Fail(s, PlainErr("backend"))
        /\ UNCHANGED products
     \/ /\ \A i \in 1..Len(c.batch) : products[c.batch[i].productId] # Null
        /\ products' = BatchApply(products, c.batch)
        /\ call' = [call EXCEPT ![s] =
             [c EXCEPT !.pc = "co_clearGetDocs", !.writes = Append(@, "stock")]]
  /\ UNCHANGED <<created, carts, orders, sellerOps, calls, ui>>

\* line 100 -> clearCart lines 185-191: getDocs of the cart, batch of deletes
clearCartGetDocs(s) ==
  LET c == call[s] IN
  /\ c.pc = "co_clearGetDocs"
  /\ \/ Fail(s, PlainErr("clear"))
     \/ call' = [call EXCEPT ![s] =
          [c EXCEPT !.refs = {p \in ProductIds : carts[c.uid][p] # Null},
                    !.pc = "co_clearCommit"]]
  /\ UNCHANGED <<db, sellerOps, calls, ui>>

\* (the batch deletes the collected ids in every customer's cart)
clearCartCommit_allCarts(s) ==
  LET c == call[s] IN
  /\ c.pc = "co_clearCommit"
  /\ \/ Fail(s, PlainErr("clear")) /\ UNCHANGED carts
     \/ /\ carts' = [u \in Users |->
                       [p \in ProductIds |-> IF p \in c.refs THEN Null ELSE carts[u][p]]]
        /\ call' = [call EXCEPT ![s] =
             [c EXCEPT !.pc = "done", !.writes = Append(@, "cart")]]
  /\ UNCHANGED <<products, created, orders, sellerOps, calls, ui>>

\* clearCart line 193: batch.commit() of the deletes; lines 102-105: return
clearCartCommit(s) ==
  LET c == call[s] IN
  /\ c.pc = "co_clearCommit"
  /\ \/ Fail(s, PlainErr("clear")) /\ UNCHANGED carts
     \/ /\ carts' = [carts EXCEPT ![c.uid] =
                       [p \in ProductIds |-> IF p \in c.refs THEN Null ELSE @[p]]]
        /\ call' = [call EXCEPT ![s] =
             [c EXCEPT !.pc = "done", !.writes = Append(@, "cart")]]
  /\ UNCHANGED <<products, created, orders, sellerOps, calls, ui>>

\* cart.ts lines 183-191: clearCart called on its own, up to batch.commit()
clearCart(s, u) ==
  /\ FreeSlot(s)
  /\ calls' = calls + 1
  /\ LET c == [Idle EXCEPT !.op = "clearCart", !.uid = u, !.stock0 = StockNow] IN
       \/ call' = [call EXCEPT ![s] = [c EXCEPT !.pc = "failed", !.err = PlainErr("clear")]]
       \/ call' = [call EXCEPT ![s] =
            [c EXCEPT !.refs = {p \in ProductIds : carts[u][p] # Null},
                      !.pc = "co_clearCommit"]]
  /\ UNCHANGED <<db, sellerOps, ui>>

\* cart.ts lines 165-176: deleteDoc of the one line
removeFromCart(s, u, p) ==
  /\ FreeSlot(s)
  /\ calls' = calls + 1
  /\ LET c == [Idle EXCEPT !.op = "removeFromCart", !.uid = u, !.pid = p,
                           !.stock0 = StockNow, !.line0 = carts[u][p]] IN
       \/ /\ call' = [call EXCEPT ![s] =
               [c EXCEPT !.pc = "failed", !.err = PlainErr("backend")]]
          /\ UNCHANGED carts
       \/ /\ carts' = [carts EXCEPT ![u][p] = Null]
          /\ call' = [call EXCEPT ![s] = [c EXCEPT !.pc = "done"]]
  /\ UNCHANGED <<products, created, orders, sellerOps, ui>>

\* the promise settles and the slot is free for the next call
Return(s) ==
  /\ call[s].pc \in {"done", "failed"}
  /\ call' = [call EXCEPT ![s] = Idle]
  /\ UNCHANGED <<db, sellerOps, calls, ui>>

\* ------------------------------------------------------------ front end
Paths == {"/login", "/customer/dashboard", "/seller/dashboard"}

\* the user objects the auth backend hands to the listener
FirebaseUsers == {[uid |-> u] : u \in Users}

\* the allowedRole the page at a path gives its ProtectedRoute
AllowedRoleAt(path) == IF path = "/customer/dashboard" THEN "customer" ELSE "seller"

\* (the test of the redirect effect used for the render as well)
ProtectedRoute_effectTest(a, allowedRole) ==
  IF a.loading THEN "spinner"
  ELSE IF a.user = Null THEN "nothing"
  ELSE IF a.userProfile # Null /\ a.userProfile.role # allowedRole THEN "nothing"
  ELSE "children"

\* protected-route.tsx lines 55-77: what the component returns
ProtectedRoute(a, allowedRole) ==
  IF a.loading THEN "spinner"
  ELSE IF a.user = Null THEN "nothing"
  ELSE IF a.userProfile = Null \/ a.userProfile.role # allowedRole THEN "nothing"
  ELSE "children"

\* protected-route.tsx lines 35-52: where the effect pushes the router, "" for nowhere
RedirectTarget(a, allowedRole) ==
  IF a.loading THEN ""
  ELSE IF a.user = Null THEN "/login"
  ELSE IF a.userProfile # Null /\ a.userProfile.role # allowedRole
    THEN IF a.userProfile.role = "customer" THEN "/customer/dashboard"
         ELSE "/seller/dashboard"
  ELSE ""

\* what the route shows under auth state a, and whether an effect is to run
Rendered(a, path) ==
  IF path = "/login"
    THEN [location |-> path, shown |-> "login", effectDue |-> FALSE]
    ELSE [location |-> path, shown |-> ProtectedRoute(a, AllowedRoleAt(path)),
          effectDue |-> TRUE]

\* getUserProfile: the profile document, or null when the read fails
GetUserProfileResults(u) == {[uid |-> u, role |-> RoleOf(u)], Null}

\* auth-context lines 102-114: the listener is told of the session (first of
\* all the one found at start-up, then every change); setUser, and for a
\* signed-out session setUserProfile(null) and setLoading(false); for a
\* signed-in one the callback suspends at getUserProfile
onAuthStateChanged(firebaseUser) ==
  /\ auth.events < MaxAuthEvents
  /\ auth.events > 0 => firebaseUser # auth.session
  /\ auth' = IF firebaseUser = Null
               THEN [auth EXCEPT !.session = Null, !.user = Null, !.userProfile = Null,
                                 !.loading = FALSE, !.events = @ + 1]
               ELSE [auth EXCEPT !.session = firebaseUser, !.user = firebaseUser,
                                 !.fetching[firebaseUser.uid] = @ + 1, !.events = @ + 1]
  /\ page' = Rendered(auth', page.location)
  /\ UNCHANGED <<shop, pages>>

\* auth-context lines 106-114: getUserProfile returns to a suspended
\* callback; setUserProfile(profile), setLoading(false)
onAuthStateChangedResume(firebaseUser) ==
  /\ auth.fetching[firebaseUser.uid] > 0
  /\ \E profile \in GetUserProfileResults(firebaseUser.uid) :
       auth' = [auth EXCEPT !.userProfile = profile, !.loading = FALSE,
                            !.fetching[firebaseUser.uid] = @ - 1]
  /\ page' = Rendered(auth', page.location)
  /\ UNCHANGED <<shop, pages>>

\* the browser opens a route
navigate(path) ==
  /\ path # page.location
  /\ page' = Rendered(auth, path)
  /\ UNCHANGED <<shop, auth, pages>>

\* protected-route.tsx lines 35-52: the effect after a render
ProtectedRouteEffect ==
  /\ page.effectDue
  /\ LET target == RedirectTarget(auth, AllowedRoleAt(page.location)) IN
       page' = IF target = "" \/ target = page.location
                 THEN [page EXCEPT !.effectDue = FALSE]
                 ELSE Rendered(auth, target)
  /\ UNCHANGED <<shop, auth, pages>>

\* ------------------------------------------------------------ cart page
NoError == [kind |-> "", names |-> {}]

\* part_004 line 229: a displayed line whose snapshot stock is below its quantity
SnapshotShort(item) == item.product.stock < item.quantity

\* part_004 lines 228-230: the products of the displayed lines that are short
InsufficientLines(cartItems) ==
  {p \in ProductIds : cartItems[p] # Null /\ SnapshotShort(cartItems[p])}

\* part_004 lines 287-289
allItemsAvailable(cartItems) ==
  \A p \in ProductIds :
    cartItems[p] # Null => cartItems[p].product.stock >= cartItems[p].quantity

\* part_004 line 458: the checkout button's disabled attribute
CheckoutDisabled ==
  \/ cartPage.checkingOut
  \/ ~allItemsAvailable(cartPage.cartItems)
  \/ \A p \in ProductIds : cartPage.cartItems[p] = Null

\* the list with its buttons is on screen: loaded, and no modal over it
ListShown == cartPage.uid # "" /\ ~cartPage.loading /\ cartPage.modal = "none"

\* part_004 lines 158-165: getCartItems returns to loadCart; setCartItems, or
\* the error, and setLoading(false)
loadCartResume ==
  /\ cartPage.loads > 0
  /\ \/ cartPage' = [cartPage EXCEPT !.cartItems = carts[cartPage.uid],
                                     !.loading = FALSE, !.loads = @ - 1,
                                     !.loadFailed = FALSE]
     \/ cartPage' = [cartPage EXCEPT !.error = [kind |-> "load", names |-> {}],
                                     !.loading = FALSE, !.loads = @ - 1,
                                     !.loadFailed = TRUE]
  /\ UNCHANGED <<shop, auth, page, productPage>>

\* part_004 lines 172-188 with the buttons of lines 393-413: the optimistic
\* update, then updateCartItemQuantity up to its first await
handleUpdateQuantity(s, p, newQuantity) ==
  /\ ListShown
  /\ cartPage.cartItems[p] # Null
  /\ LET item == cartPage.cartItems[p] IN
       \/ newQuantity = item.quantity - 1 /\ ~(item.quantity <= 1)
       \/ newQuantity = item.quantity + 1 /\ ~(item.quantity >= item.product.stock)
  /\ cartPage' = [cartPage EXCEPT !.error = NoError,
                                  !.cartItems[p].quantity = newQuantity,
                                  !.awaiting[s] = "handleUpdateQuantity"]
  /\ StartUpdateCartItemQuantity(s, cartPage.uid, p, newQuantity)
  /\ UNCHANGED <<auth, page, productPage>>

\* part_004 lines 188-193: updateCartItemQuantity settles; on an error
\* setError and loadCart up to its await
handleUpdateQuantityResume(s) ==
  /\ cartPage.awaiting[s] = "handleUpdateQuantity"
  /\ call[s].pc \in {"done", "failed"}
  /\ call' = [call EXCEPT ![s] = Idle]
  /\ cartPage' = IF call[s].pc = "done"
                   THEN [cartPage EXCEPT !.awaiting[s] = "none"]
                   ELSE [cartPage EXCEPT !.awaiting[s] = "none",
                                         !.error = [kind |-> call[s].err.kind, names |-> {}],
                                         !.loading = TRUE, !.loads = @ + 1]
  /\ UNCHANGED <<db, sellerOps, calls, auth, page, productPage>>

\* (the confirmation opened without looking at the lines)
handleCheckout_noValidation ==
  /\ ListShown
  /\ cartPage' = [cartPage EXCEPT !.modal = "checkout"]
  /\ UNCHANGED <<shop, auth, page, productPage>>

\* part_004 lines 224-244, behind the button of lines 456-458
handleCheckout ==
  /\ ListShown
  /\ ~CheckoutDisabled
  /\ LET insufficientStock == InsufficientLines(cartPage.cartItems) IN
       cartPage' = IF insufficientStock # {}
                     THEN [cartPage EXCEPT !.error =
                            [kind |-> "insufficient",
                             names |-> {cartPage.cartItems[p].product.name :
                                          p \in insufficientStock}]]
                     ELSE [cartPage EXCEPT !.modal = "checkout"]
  /\ UNCHANGED <<shop, auth, page, productPage>>

\* part_004 lines 476-478: the modal is dismissed
closeModal ==
  /\ cartPage.modal # "none"
  /\ cartPage' = [cartPage EXCEPT !.modal = "none"]
  /\ UNCHANGED <<shop, auth, page, productPage>>

\* part_004 lines 246-255: the confirmation, then createOrderFromCart up to
\* its first await
confirmCheckout(s) ==
  /\ cartPage.modal = "checkout"
  /\ cartPage' = [cartPage EXCEPT !.modal = "none", !.checkingOut = TRUE,
                                  !.error = NoError, !.awaiting[s] = "confirmCheckout"]
  /\ StartCreateOrder(s, cartPage.uid)
  /\ UNCHANGED <<auth, page, productPage>>

\* part_004 lines 255-269: createOrderFromCart settles
confirmCheckoutResume(s) ==
  /\ cartPage.awaiting[s] = "confirmCheckout"
  /\ call[s].pc \in {"done", "failed"}
  /\ call' = [call EXCEPT ![s] = Idle]
  /\ cartPage' = IF call[s].pc = "done"
                   THEN [cartPage EXCEPT !.awaiting[s] = "none", !.checkingOut = FALSE,
                                         !.modal = "success"]
                   ELSE [cartPage EXCEPT !.awaiting[s] = "none", !.checkingOut = FALSE,
                                         !.error = [kind |-> call[s].err.kind, names |-> {}]]
  /\ UNCHANGED <<db, sellerOps, calls, auth, page, productPage>>

\* ------------------------------------------------------ product detail page
\* what the quantity input can hold: nothing, or a number
InputTexts == {"", "-1", "0", "1", "2", "3"}

\* [id]/page.tsx line 229: parseInt(e.target.value) || 1
parseIntOr1(text) ==
  LET n == CASE text = "-1" -> -1 [] text = "0" -> 0 [] text = "1" -> 1
             [] text = "2" -> 2 [] text = "3" -> 3 [] OTHER -> 0
  IN  IF text = "" \/ n = 0 THEN 1 ELSE n

\* [id]/page.tsx lines 71-82: the quantity handleQuantityChange sets
Clamped(newQuantity, product) ==
  IF newQuantity < 1 THEN 1
  ELSE IF newQuantity > product.stock THEN product.stock
  ELSE newQuantity

\* [id]/page.tsx lines 49-60: getProductById returns to loadProduct
loadProductResume ==
  /\ productPage.loading
  /\ \E fetchedProduct \in GetProductByIdResults(productPage.pid) :
       productPage' = IF fetchedProduct = Null
                        THEN [productPage EXCEPT !.error = "notfound", !.loading = FALSE]
                        ELSE [productPage EXCEPT !.product = fetchedProduct,
                                                 !.loading = FALSE]
  /\ UNCHANGED <<shop, auth, page, cartPage>>

\* [id]/page.tsx lines 68-84
handleQuantityChange(newQuantity) ==
  /\ productPage.uid # "" /\ ~productPage.loading
  /\ productPage.product # Null
  /\ productPage' =
       [productPage EXCEPT
          !.quantity = Clamped(newQuantity, productPage.product),
          !.error = IF newQuantity < 1 THEN @
                    ELSE IF newQuantity > productPage.product.stock THEN "stock"
                    ELSE "",
          !.changed = TRUE]
  /\ UNCHANGED <<shop, auth, page, cartPage>>

\* [id]/page.tsx lines 219-220: the minus button
minusButton ==
  /\ productPage.product # Null
  /\ ~(productPage.quantity <= 1)
  /\ handleQuantityChange(productPage.quantity - 1)

\* [id]/page.tsx lines 234-235: the plus button
plusButton ==
  /\ productPage.product # Null
  /\ ~(productPage.quantity >= productPage.product.stock)
  /\ handleQuantityChange(productPage.quantity + 1)

\* [id]/page.tsx lines 226-229: the input is edited
quantityInput(text) == handleQuantityChange(parseIntOr1(text))

\* [id]/page.tsx lines 86-94 behind the button of lines 257-259: addToCart up
\* to its first await
handleAddToCart(s) ==
  /\ productPage.uid # "" /\ ~productPage.loading
  /\ productPage.product # Null
  /\ ~(productPage.adding \/ productPage.product.stock = 0)
  /\ productPage' = [productPage EXCEPT !.adding = TRUE, !.error = ""]
  /\ StartAddToCart(s, productPage.uid, productPage.pid, productPage.quantity)
  /\ UNCHANGED <<auth, page, cartPage>>

\* [id]/page.tsx lines 94-105: addToCart settles
handleAddToCartResume(s) ==
  /\ productPage.adding
  /\ call[s].op = "addToCart"
  /\ call[s].pc \in {"done", "failed"}
  /\ call' = [call EXCEPT ![s] = Idle]
  /\ productPage' = IF call[s].pc = "done"
                      THEN [productPage EXCEPT !.adding = FALSE, !.quantity = 1]
                      ELSE [productPage EXCEPT !.adding = FALSE,
                                               !.error = call[s].err.kind]
  /\ UNCHANGED <<db, sellerOps, calls, auth, page, cartPage>>

\* ------------------------------------------------------- specifications
SellerStep ==
  \/ \E n \in Names, pr \in 1..MaxPrice, st \in 1..MaxStock : addProduct(n, pr, st)
  \/ \E p \in ProductIds, updates \in UpdateSets : updateProduct(p, updates)
  \/ \E p \in ProductIds : deleteProduct(p)

\* checkouts, one at a time, concurrent with the seller
NextCheckout ==
  \/ SellerStep
  \/ \E u \in Users : createOrderGetCart(1, u)
  \/ createOrderValidate(1)
  \/ createOrderAddDoc(1)
  \/ createOrderBatchRead(1)
  \/ createOrderCommit(1)
  \/ clearCartGetDocs(1)
  \/ clearCartCommit(1)
  \/ Return(1)

SpecCheckout == InitShop /\ [][NextCheckout]_vars

\* addToCart calls, one at a time, concurrent with the seller
NextCart ==
  \/ SellerStep
  \/ \E u \in Users, p \in ProductIds, q \in 0..MaxQty : addToCartGetProduct(1, u, p, q)
  \/ addToCartGetDoc(1)
  \/ addToCartUpdateDoc(1)
  \/ addToCartSetDoc(1)
  \/ Return(1)

SpecCart == InitShop /\ [][NextCart]_vars

\* two addToCart calls in flight at once, interleaving at their awaits
NextRace ==
  \/ \E s \in Slots, u \in Users, p \in ProductIds, q \in 0..MaxQty :
       addToCartGetProduct(s, u, p, q)
  \/ \E s \in Slots : addToCartGetDoc(s)
  \/ \E s \in Slots : addToCartUpdateDoc(s)
  \/ \E s \in Slots : addToCartSetDoc(s)
  \/ \E s \in Slots : Return(s)

SpecRace == InitShop /\ [][NextRace]_vars

\* the quantity arguments the cart page and its callers pass
Quantities == -1..MaxQty

\* cart edits (addToCart, updateCartItemQuantity), one call at a time,
\* concurrent with the seller
NextQuantity ==
  \/ SellerStep
  \/ \E u \in Users, p \in ProductIds, q \in Quantities : updateCartItemQuantity(1, u, p, q)
  \/ updateCartItemQuantityUpdateDoc(1)
  \/ \E u \in Users, p \in ProductIds, q \in 1..MaxQty : addToCartGetProduct(1, u, p, q)
  \/ addToCartGetDoc(1)
  \/ addToCartUpdateDoc(1)
  \/ addToCartSetDoc(1)
  \/ Return(1)

SpecQuantity == InitShop /\ [][NextQuantity]_vars

\* the whole backend, one customer call at a time, concurrent with the seller
NextShop ==
  \/ SellerStep
  \/ \E u \in Users : createOrderGetCart(1, u)
  \/ createOrderValidate(1)
  \/ createOrderAddDoc(1)
  \/ createOrderBatchRead(1)
  \/ createOrderCommit(1)
  \/ clearCartGetDocs(1)
  \/ clearCartCommit(1)
  \/ \E u \in Users, p \in ProductIds, q \in 1..MaxQty : addToCartGetProduct(1, u, p, q)
  \/ addToCartGetDoc(1)
  \/ addToCartUpdateDoc(1)
  \/ addToCartSetDoc(1)
  \/ \E u \in Users, p \in ProductIds, q \in Quantities : updateCartItemQuantity(1, u, p, q)
  \/ updateCartItemQuantityUpdateDoc(1)
  \/ Return(1)

SpecShop == InitShop /\ [][NextShop]_vars

\* a fresh store, the AuthProvider just mounted, the browser on any route
InitAuth ==
  /\ products = [p \in ProductIds |-> Null]
  /\ created = 0
  /\ carts = [u \in Users |-> [p \in ProductIds |-> Null]]
  /\ orders = <<>>
  /\ call = [s \in Slots |-> Idle]
  /\ sellerOps = 0
  /\ calls = 0
  /\ \E session \in FirebaseUsers \cup {Null} :
       auth = [AuthProvider EXCEPT !.session = session]
  /\ \E path \in Paths : page = Rendered(auth, path)
  /\ cartPage = CartContent
  /\ productPage = ProductDetailContent

\* sign-ins and sign-outs, profile fetches, navigation and the route guard
NextAuth ==
  \/ \E firebaseUser \in FirebaseUsers \cup {Null} : onAuthStateChanged(firebaseUser)
  \/ \E firebaseUser \in FirebaseUsers : onAuthStateChangedResume(firebaseUser)
  \/ \E path \in Paths : navigate(path)
  \/ ProtectedRouteEffect

SpecAuth == InitAuth /\ [][NextAuth]_vars

\* The cart page just opened by customer u1, its first loadCart under way.
\* The catalog has both products, with any stock (0 after a sell-out); a cart
\* line holds the product as it was when the line was created, whose stock
\* need not be the stock now, and a quantity some earlier call stored.
InitCartPage ==
  /\ \E stock \in [ProductIds -> 0..MaxStock] :
       products = [p \in ProductIds |->
                     [name |-> NameOf(p), price |-> p, stock |-> stock[p]]]
  /\ created = Cardinality(ProductIds)
  /\ \E quantity \in [ProductIds -> 0..MaxQty], stockThen \in [ProductIds -> 1..MaxStock] :
       /\ \A p \in ProductIds : quantity[p] = 0 => stockThen[p] = 1
       /\ carts = [u \in Users |-> [p \in ProductIds |->
            IF u # "u1" \/ quantity[p] = 0 THEN Null
            ELSE [productId |-> p,
                  product |-> [name |-> NameOf(p), price |-> p, stock |-> stockThen[p]],
                  quantity |-> quantity[p]]]]
  /\ orders = <<>>
  /\ call = [s \in Slots |-> Idle]
  /\ sellerOps = 0
  /\ calls = 0
  /\ auth = AuthProvider
  /\ page = [location |-> "/login", shown |-> "login", effectDue |-> FALSE]
  /\ cartPage = [CartContent EXCEPT !.uid = "u1", !.loading = TRUE, !.loads = 1]
  /\ productPage = ProductDetailContent

\* the cart page's handlers and the backend calls they have in flight
NextCartPage ==
  \/ loadCartResume
  \/ \E s \in Slots, p \in ProductIds, newQuantity \in 0..(MaxQty + 1) :
       handleUpdateQuantity(s, p, newQuantity)
  \/ \E s \in Slots : handleUpdateQuantityResume(s)
  \/ handleCheckout
  \/ closeModal
  \/ \E s \in Slots : confirmCheckout(s)
  \/ \E s \in Slots : confirmCheckoutResume(s)
  \/ \E s \in Slots : updateCartItemQuantityUpdateDoc(s)
  \/ \E s \in Slots : createOrderValidate(s)
  \/ \E s \in Slots : createOrderAddDoc(s)
  \/ \E s \in Slots : createOrderBatchRead(s)
  \/ \E s \in Slots : createOrderCommit(s)
  \/ \E s \in Slots : clearCartGetDocs(s)
  \/ \E s \in Slots : clearCartCommit(s)

SpecCartPage == InitCartPage /\ [][NextCartPage]_vars

\* Customer u1 has just opened the page of one product, its loadProduct under
\* way. The product may be sold out (stock 0): the page is reached by the
\* product's id, whatever the listing shows.
InitProductPage ==
  /\ \E stock \in [ProductIds -> 0..MaxStock] :
       products = [p \in ProductIds |->
                     [name |-> NameOf(p), price |-> p, stock |-> stock[p]]]
  /\ created = Cardinality(ProductIds)
  /\ carts = [u \in Users |-> [p \in ProductIds |-> Null]]
  /\ orders = <<>>
  /\ call = [s \in Slots |-> Idle]
  /\ sellerOps = 0
  /\ calls = 0
  /\ auth = AuthProvider
  /\ page = [location |-> "/login", shown |-> "login", effectDue |-> FALSE]
  /\ cartPage = CartContent
  /\ \E p \in ProductIds :
       productPage = [ProductDetailContent EXCEPT !.uid = "u1", !.pid = p,
                                                  !.loading = TRUE]

\* the product page's handlers and the addToCart call it has in flight
NextProductPage ==
  \/ loadProductResume
  \/ minusButton
  \/ plusButton
  \/ \E text \in InputTexts : quantityInput(text)
  \/ handleAddToCart(1)
  \/ handleAddToCartResume(1)
  \/ addToCartGetDoc(1)
  \/ addToCartUpdateDoc(1)
  \/ addToCartSetDoc(1)

SpecProductPage == InitProductPage /\ [][NextProductPage]_vars

\* bulk deletes by the seller, up to two requests under way at once
NextBulkDelete ==
  \/ \E s \in Slots, productIds \in SUBSET ProductIds : deleteMultipleProducts(s, productIds)
  \/ \E s \in Slots, p \in ProductIds : deleteProductSettles(s, p)
  \/ \E s \in Slots : deleteMultipleProductsReturn(s)

SpecBulkDelete == InitShop /\ [][NextBulkDelete]_vars

\* every cart operation of every customer, one call at a time
NextCarts ==
  \/ \E u \in Users, p \in ProductIds, q \in 1..MaxQty : addToCartGetProduct(1, u, p, q)
  \/ addToCartGetDoc(1)
  \/ addToCartUpdateDoc(1)
  \/ addToCartSetDoc(1)
  \/ \E u \in Users, p \in ProductIds, q \in Quantities : updateCartItemQuantity(1, u, p, q)
  \/ updateCartItemQuantityUpdateDoc(1)
  \/ \E u \in Users, p \in ProductIds : removeFromCart(1, u, p)
  \/ \E u \in Users : clearCart(1, u)
  \/ \E u \in Users : createOrderGetCart(1, u)
  \/ createOrderValidate(1)
  \/ createOrderAddDoc(1)
  \/ createOrderBatchRead(1)
  \/ createOrderCommit(1)
  \/ clearCartGetDocs(1)
  \/ clearCartCommit(1)
  \/ Return(1)

SpecCarts == InitShop /\ [][NextCarts]_vars

\* Both customers hold a cart line for the first product, each within the
\* product's stock, and no order has been placed.
InitCheckoutRace ==
  /\ \E stock \in [ProductIds -> 1..MaxStock] :
       products = [p \in ProductIds |->
                     [name |-> NameOf(p), price |-> p, stock |-> stock[p]]]
  /\ created = Cardinality(ProductIds)
  /\ \E quantity \in [Users -> 1..MaxQty] :
       /\ \A u \in Users : quantity[u] <= products[1].stock
       /\ carts = [u \in Users |-> [p \in ProductIds |->
            IF p # 1 THEN Null
            ELSE [productId |-> p, product |-> products[p], quantity |-> quantity[u]]]]
  /\ orders = <<>>
  /\ call = [s \in Slots |-> Idle]
  /\ sellerOps = 0
  /\ calls = 0
  /\ auth = AuthProvider
  /\ page = [location |-> "/login", shown |-> "login", effectDue |-> FALSE]
  /\ cartPage = CartContent
  /\ productPage = ProductDetailContent

\* checkouts of the two customers, interleaving at their awaits; no seller
NextCheckoutRace ==
  \/ \E s \in Slots, u \in Users : createOrderGetCart(s, u)
  \/ \E s \in Slots : createOrderValidate(s)
  \/ \E s \in Slots : createOrderAddDoc(s)
  \/ \E s \in Slots : createOrderBatchRead(s)
  \/ \E s \in Slots : createOrderCommit(s)
  \/ \E s \in Slots : clearCartGetDocs(s)
  \/ \E s \in Slots : clearCartCommit(s)

SpecCheckoutRace == InitCheckoutRace /\ [][NextCheckoutRace]_vars

\* ------------------------------------------------------------- claims
\* lines of a cart, as read, whose product exists with less stock than asked
Short(items) ==
  {i \in 1..Len(items) :
     /\ products[items[i].productId] # Null
     /\ products[items[i].productId].stock < items[i].quantity}

FirstShort(items) == CHOOSE i \in Short(items) : \A j \in Short(items) : i <= j

\* slot s leaves the validation loop in this step
LeavesValidation(s) ==
  /\ call[s].op = "checkout"
  /\ call[s].pc = "co_validate"
  /\ call'[s].pc # "co_validate"

\* C1 as stated: a checkout of a cart with a line that asks for more than the
\* product's stock (the stock not having changed since the checkout started,
\* and the reads of existing products succeeding) fails with the
\* insufficient-stock error of the first such line and writes nothing.
C1_AnyShortLineNamed ==
  [][\A s \in Slots :
       LET c == call[s] IN
       ( /\ LeavesValidation(s)
         /\ c.stock0 = StockNow
         /\ Short(c.items) # {}
         /\ ~(call'[s].err.kind = "notfound" /\ products[c.items[c.idx].productId] # Null) )
       => LET i == FirstShort(c.items)
              p == products[c.items[i].productId]
          IN  /\ call'[s].pc = "failed"
              /\ call'[s].err.kind = "insufficient"
              /\ call'[s].err.name = p.name
              /\ call'[s].err.available = p.stock
              /\ call'[s].err.requested = c.items[i].quantity
              /\ UNCHANGED db
    ]_vars

\* C1, amended: checkout stops at the first line, in read order, that does not
\* pass.  When that line's product has less stock than the line asks for, the
\* checkout fails, with the insufficient-stock error naming that product, its
\* stock and the requested quantity (or with product-not-found when the product
\* could not be read); an insufficient-stock error is raised only so, every
\* earlier line having passed; and the failing checkout has written nothing.
C1_ShortLineRejected ==
  [][\A s \in Slots :
       LET c == call[s] IN
       (c.op = "checkout" /\ c.pc = "co_validate" /\ call'[s] # c) =>
         LET cartItem == c.items[c.idx]
             p == products[cartItem.productId]
             e == call'[s].err
             short == p # Null /\ p.stock < cartItem.quantity
             named == /\ e.kind = "insufficient"
                      /\ e.name = p.name
                      /\ e.available = p.stock
                      /\ e.requested = cartItem.quantity
         IN  /\ short =>
                  /\ call'[s].pc = "failed"
                  /\ named \/ (e.kind = "notfound" /\ e.name = cartItem.product.name)
             /\ e.kind = "insufficient" =>
                  /\ short
                  /\ named
                  /\ Len(c.orderItems) = c.idx - 1
             /\ call'[s].pc = "failed" =>
                  /\ UNCHANGED db
                  /\ call'[s].writes = <<>>
                  /\ call'[s].orderId = 0
    ]_vars

\* a checkout has failed on stock; nothing was ordered
C1_Witness ==
  \E s \in Slots :
    /\ call[s].op = "checkout"
    /\ call[s].pc = "failed"
    /\ call[s].err.kind = "insufficient"
    /\ call[s].err.requested > call[s].err.available
    /\ orders = <<>>

\* C2: when a checkout returns its order, every product of the order that
\* still exists has the stock it had when the checkout started less the
\* ordered quantity, and the customer's cart has no lines.
C2_StockDecrementedCartEmpty ==
  [][\A s \in Slots :
       LET c == call[s] IN
       (c.op = "checkout" /\ c.pc # "done" /\ call'[s].pc = "done") =>
         /\ \A i \in 1..Len(c.orderItems) :
              LET item == c.orderItems[i] IN
              products'[item.productId] # Null =>
                products'[item.productId].stock = c.stock0[item.productId] - item.quantity
         /\ \A p \in ProductIds : carts'[c.uid][p] = Null
    ]_vars

RECURSIVE LineSum(_)
LineSum(items) ==
  IF items = <<>> THEN 0
  ELSE items[1].priceAtPurchase * items[1].quantity + LineSum(Tail(items))

\* C3: every stored order's totalAmount is the sum over its lines of
\* priceAtPurchase x quantity, and every line's subtotal is its
\* priceAtPurchase x quantity.
C3_TotalIsSumOfLines ==
  \A k \in 1..Len(orders) :
    /\ orders[k].totalAmount = LineSum(orders[k].items)
    /\ \A i \in 1..Len(orders[k].items) :
         orders[k].items[i].subtotal =
           orders[k].items[i].priceAtPurchase * orders[k].items[i].quantity

\* an order of two lines with different prices and a quantity above one
C3_Witness ==
  \E k \in 1..Len(orders) :
    /\ Len(orders[k].items) = 2
    /\ orders[k].items[1].priceAtPurchase # orders[k].items[2].priceAtPurchase
    /\ \E i \in 1..2 : orders[k].items[i].quantity > 1

\* C4: a checkout that reads an empty cart fails with the empty-cart error
\* having written nothing, and a failed call takes no further step but to
\* settle, which writes nothing: no order, no stock change, no cart clear.
C4_EmptyCartRejected ==
  [][\A s \in Slots :
       /\ ( /\ call[s].pc = "idle"
            /\ call'[s].op = "checkout"
            /\ call'[s].err.kind # "cartread"
            /\ \A p \in ProductIds : carts[call'[s].uid][p] = Null )
          => /\ call'[s].pc = "failed"
             /\ call'[s].err.kind = "empty"
             /\ call'[s].writes = <<>>
             /\ UNCHANGED db
       /\ (call[s].pc = "failed" /\ call'[s] # call[s])
          => call'[s] = Idle /\ UNCHANGED db
    ]_vars

\* a checkout of an empty cart has been rejected
C4_Witness ==
  \E s \in Slots :
    /\ call[s].op = "checkout"
    /\ call[s].pc = "failed"
    /\ call[s].err.kind = "empty"
    /\ \A p \in ProductIds : carts[call[s].uid][p] = Null

\* C5: a checkout writes in the order: order record, stock batch, cart clear.
\* The step that stores the order is its first write; a step that changes
\* stock comes with the order stored and nothing else written; a step that
\* clears cart lines comes after the order and the committed stock batch.
C5_WritesInOrder ==
  [][\A s \in Slots :
       LET c == call[s] IN
       (c.op = "checkout" /\ call'[s] # c) =>
         /\ orders' # orders => c.writes = <<>> /\ call'[s].writes = <<"order">>
         /\ products' # products =>
              /\ c.writes = <<"order">>
              /\ call'[s].writes = <<"order", "stock">>
              /\ c.orderId \in 1..Len(orders)
              /\ orders[c.orderId].customerId = c.uid
         /\ carts' # carts =>
              /\ c.writes = <<"order", "stock">>
              /\ call'[s].writes = <<"order", "stock", "cart">>
         /\ call'[s].pc = "done" => call'[s].writes = <<"order", "stock", "cart">>
    ]_vars

\* a checkout has returned after all three writes, with stock and cart changed
C5_Witness ==
  \E s \in Slots :
    /\ call[s].op = "checkout"
    /\ call[s].pc = "done"
    /\ call[s].writes = <<"order", "stock", "cart">>
    /\ \E p \in ProductIds : products[p] # Null /\ products[p].stock # call[s].stock0[p]

\* C6: once the order is stored, a failure of the stock batch or of the cart
\* clear ends the checkout in an error; the failing step, and the settling of
\* the failed call after it, leave the order stored and change nothing.
C6_NoRollback ==
  [][\A s \in Slots :
       LET c == call[s] IN
       /\ ( /\ c.op = "checkout"
            /\ c.pc \in {"co_commit", "co_clearGetDocs", "co_clearCommit"}
            /\ call'[s].pc = "failed" )
          => /\ c.orderId \in 1..Len(orders)
             /\ call'[s].err.kind \in {"backend", "clear"}
             /\ orders' = orders
             /\ UNCHANGED db
       /\ (c.op = "checkout" /\ c.pc = "failed" /\ c.orderId # 0 /\ call'[s] # c)
          => /\ call'[s] = Idle
             /\ c.orderId \in 1..Len(orders)
             /\ UNCHANGED db
    ]_vars

\* a checkout has failed with its order stored, the stock of an ordered
\* product as it was when the checkout started, and the cart still filled
C6_Witness ==
  \E s \in Slots :
    LET c == call[s] IN
    /\ c.op = "checkout"
    /\ c.pc = "failed"
    /\ c.orderId \in 1..Len(orders)
    /\ orders[c.orderId].customerId = c.uid
    /\ \E i \in 1..Len(orders[c.orderId].items) :
         LET p == orders[c.orderId].items[i].productId IN
         /\ products[p] # Null
         /\ products[p].stock = c.stock0[p]
         /\ carts[c.uid][p] # Null

\* C7 as stated: a checkout of a cart with a line whose product no longer
\* exists (the stock not having changed since the checkout started) fails
\* with product-not-found and changes nothing.
C7_AnyMissingProductNamed ==
  [][\A s \in Slots :
       LET c == call[s] IN
       ( /\ LeavesValidation(s)
         /\ c.stock0 = StockNow
         /\ \E i \in 1..Len(c.items) : products[c.items[i].productId] = Null )
       => /\ call'[s].pc = "failed"
          /\ call'[s].err.kind = "notfound"
          /\ UNCHANGED db
    ]_vars

\* C7, amended: the cart read and every step of the validation loop change
\* nothing in the store; a step that reaches a line whose product no longer
\* exists fails with product-not-found, naming the product by the line's
\* snapshot; and a checkout that fails in this phase has written nothing.
C7_ValidationReadOnly ==
  [][\A s \in Slots :
       LET c == call[s] IN
       /\ (call[s].pc = "idle" /\ call'[s].op = "checkout") =>
            /\ UNCHANGED db
            /\ call'[s].writes = <<>>
       /\ (c.op = "checkout" /\ c.pc = "co_validate" /\ call'[s] # c) =>
            LET cartItem == c.items[c.idx] IN
            /\ UNCHANGED db
            /\ call'[s].writes = <<>>
            /\ call'[s].orderId = 0
            /\ products[cartItem.productId] = Null =>
                 /\ call'[s].pc = "failed"
                 /\ call'[s].err.kind = "notfound"
                 /\ call'[s].err.name = cartItem.product.name
    ]_vars

\* a checkout has failed on a deleted product that its cart still holds
C7_Witness ==
  \E s \in Slots :
    LET c == call[s] IN
    /\ c.op = "checkout"
    /\ c.pc = "failed"
    /\ c.err.kind = "notfound"
    /\ orders = <<>>
    /\ \E p \in ProductIds :
         /\ products[p] = Null
         /\ carts[c.uid][p] # Null
         /\ c.err.name = carts[c.uid][p].product.name

\* C8: the commit step either decrements the stock of every product of the
\* order (that exists) by the ordered quantity, or fails and decrements none.
C8_AllDecrementedOrNone ==
  [][\A s \in Slots :
       LET c == call[s] IN
       (c.op = "checkout" /\ c.pc = "co_commit" /\ call'[s] # c) =>
         \/ \A i \in 1..Len(c.orderItems) :
              LET item == c.orderItems[i] IN
              products[item.productId] # Null =>
                /\ products'[item.productId] # Null
                /\ products'[item.productId].stock =
                     products[item.productId].stock - item.quantity
         \/ call'[s].pc = "failed" /\ products' = products
    ]_vars

\* C9: the stock of every product is a non-negative integer.
C9_StockNonNegative ==
  \A p \in ProductIds : products[p] # Null => products[p].stock \in Nat

\* C10: addToCart on an existing line, with the product read at the start of
\* the call: when the line's quantity plus the added quantity exceeds the
\* product's stock the call fails with insufficient-stock; otherwise it goes
\* on to store exactly that sum in the line, leaving the rest of the cart as
\* it is; and a failing call leaves every line unchanged.
C10_MergeAddsQuantity ==
  [][\A s \in Slots :
       LET c == call[s]
           line == carts[c.uid][c.pid]
       IN
       /\ ( /\ c.op = "addToCart" /\ c.pc = "atc_getDoc" /\ call'[s] # c
            /\ line # Null
            /\ call'[s].err.kind # "backend" )
          => /\ carts' = carts
             /\ IF line.quantity + c.qty > c.product.stock
                  THEN call'[s].pc = "failed" /\ call'[s].err.kind = "insufficient"
                  ELSE call'[s].pc = "atc_updateDoc"
       /\ (c.op = "addToCart" /\ c.pc = "atc_updateDoc" /\ call'[s].pc = "done")
          => /\ line # Null
             /\ line.quantity + c.qty <= c.product.stock
             /\ carts' = [carts EXCEPT ![c.uid][c.pid].quantity = line.quantity + c.qty]
       /\ (c.op = "addToCart" /\ call'[s].pc = "failed") => carts' = carts
    ]_vars

\* an addToCart has returned after raising the quantity of an existing line
C10_Witness ==
  \E s \in Slots :
    LET c == call[s] IN
    /\ c.op = "addToCart"
    /\ c.pc = "done"
    /\ c.qty > 0
    /\ c.newQuantity > c.qty
    /\ carts[c.uid][c.pid] # Null
    /\ carts[c.uid][c.pid].quantity = c.newQuantity

\* the quantity slot s found in the line when it read it (line 52)
QuantityRead(s) == call[s].newQuantity - call[s].qty

\* slot s is an addToCart on an existing line that has passed its guards
Merging(s) == call[s].op = "addToCart" /\ call[s].pc \in {"atc_updateDoc", "done"}
              /\ call[s].newQuantity > 0

\* C11: addToCart has no compare-and-swap guard: the write of a merging call
\* stores the quantity it read plus its own addition, whatever the line holds
\* by then; so when another call for the same line, having read the same
\* quantity, has written in between, that call's addition is not in the
\* stored quantity (the last write wins).
C11_LastWriteWins ==
  [][\A s \in Slots :
       LET c == call[s] IN
       (c.op = "addToCart" /\ c.pc = "atc_updateDoc" /\ call'[s].pc = "done") =>
         /\ carts'[c.uid][c.pid].quantity = QuantityRead(s) + c.qty
         /\ \A t \in Slots \ {s} :
              ( /\ Merging(t) /\ call[t].pc = "done"
                /\ call[t].uid = c.uid /\ call[t].pid = c.pid
                /\ QuantityRead(t) = QuantityRead(s)
                /\ call[t].qty > 0 )
              => carts'[c.uid][c.pid].quantity < QuantityRead(s) + c.qty + call[t].qty
    ]_vars

\* two calls for one line, both adding, have read the same quantity and both
\* have returned; the line holds that quantity plus one of the two additions
C11_Witness ==
  \E s \in Slots : \E t \in Slots \ {s} :
    /\ Merging(s) /\ Merging(t)
    /\ call[s].pc = "done" /\ call[t].pc = "done"
    /\ call[s].uid = call[t].uid /\ call[s].pid = call[t].pid
    /\ call[s].qty > 0 /\ call[t].qty > 0
    /\ QuantityRead(s) = QuantityRead(t)
    /\ carts[call[s].uid][call[s].pid].quantity = QuantityRead(s) + call[s].qty
    /\ carts[call[s].uid][call[s].pid].quantity
         < QuantityRead(s) + call[s].qty + call[t].qty

\* slot s starts an updateCartItemQuantity call in this step
StartsQuantityUpdate(s) ==
  call[s].pc = "idle" /\ call'[s].op = "updateCartItemQuantity"

\* C12: updateCartItemQuantity with a quantity of 0 or less deletes the line
\* in its one step: unless the delete itself is rejected by the backend, the
\* call returns with the line gone and every other line as it was, and no
\* product is read on the way, whatever the product's state.
C12_NonPositiveDeletesLine ==
  [][\A s \in Slots :
       (StartsQuantityUpdate(s) /\ call'[s].qty <= 0) =>
         LET d == call'[s] IN
         /\ d.pc \in {"done", "failed"}
         /\ d.product = Null
         /\ products' = products
         /\ d.pc = "done" => carts' = [carts EXCEPT ![d.uid][d.pid] = Null]
         /\ d.pc = "failed" => d.err.kind = "backend" /\ carts' = carts
    ]_vars

\* a call with a quantity of 0 or less has returned: the line it found is
\* gone, and the product of the line does not exist any more
C12_Witness ==
  \E s \in Slots :
    LET c == call[s] IN
    /\ c.op = "updateCartItemQuantity"
    /\ c.pc = "done"
    /\ c.qty <= 0
    /\ c.line0 # Null
    /\ carts[c.uid][c.pid] = Null
    /\ products[c.pid] = Null

\* C13: updateCartItemQuantity with a positive quantity reads the product:
\* when the product is missing or the quantity exceeds its stock the call
\* fails; otherwise it goes on to store exactly the new quantity in the line,
\* leaving the rest of the cart as it is; and a failing call leaves every
\* line unchanged.
C13_PositiveQuantityRevalidated ==
  [][\A s \in Slots :
       LET c == call[s]
           d == call'[s]
       IN
       /\ (StartsQuantityUpdate(s) /\ d.qty > 0) =>
            LET p == products[d.pid] IN
            /\ carts' = carts
            /\ d.pc \in {"failed", "ucq_updateDoc"}
            /\ p = Null => d.pc = "failed" /\ d.err.kind = "notfound"
            /\ (p # Null /\ d.qty > p.stock) =>
                 d.pc = "failed" /\ d.err.kind \in {"insufficient", "notfound"}
            /\ (p # Null /\ d.qty <= p.stock /\ d.err.kind # "notfound") =>
                 d.pc = "ucq_updateDoc" /\ d.product = p
       /\ (c.op = "updateCartItemQuantity" /\ c.pc = "ucq_updateDoc" /\ d.pc = "done") =>
            /\ carts[c.uid][c.pid] # Null
            /\ c.qty <= c.product.stock
            /\ carts' = [carts EXCEPT ![c.uid][c.pid].quantity = c.qty]
       /\ (d.op = "updateCartItemQuantity" /\ d.pc = "failed") => carts' = carts
    ]_vars

\* a call has returned after replacing a line's quantity by a different one
C13_Witness ==
  \E s \in Slots :
    LET c == call[s] IN
    /\ c.op = "updateCartItemQuantity"
    /\ c.pc = "done"
    /\ c.qty > 0
    /\ c.line0 # Null
    /\ c.line0.quantity # c.qty
    /\ carts[c.uid][c.pid] # Null
    /\ carts[c.uid][c.pid].quantity = c.qty

\* C14: addToCart for a product the customer has no line for: the call fails
\* with product-not-found when the product does not exist and with
\* insufficient-stock when the quantity exceeds the stock read; a failing
\* call creates no line; otherwise the call goes on to create exactly one
\* line, under the product's id, with the requested quantity and the product
\* as the call read it, leaving every other line as it is.
C14_NewLineCreated ==
  [][\A s \in Slots :
       LET c == call[s]
           d == call'[s]
       IN
       /\ (c.pc = "idle" /\ d.op = "addToCart" /\ carts[d.uid][d.pid] = Null) =>
            LET p == products[d.pid] IN
            /\ carts' = carts
            /\ d.pc \in {"failed", "atc_getDoc"}
            /\ p = Null => d.pc = "failed" /\ d.err.kind = "notfound"
            /\ (p # Null /\ d.qty > p.stock) =>
                 d.pc = "failed" /\ d.err.kind \in {"insufficient", "notfound"}
            /\ (p # Null /\ d.qty <= p.stock /\ d.err.kind # "notfound") =>
                 d.pc = "atc_getDoc" /\ d.product = p
       /\ ( /\ c.op = "addToCart" /\ c.pc = "atc_getDoc" /\ d # c
            /\ carts[c.uid][c.pid] = Null
            /\ d.err.kind # "backend" )
          => d.pc = "atc_setDoc" /\ d.product = c.product /\ carts' = carts
       /\ (c.op = "addToCart" /\ c.pc = "atc_setDoc" /\ d.pc = "done") =>
            /\ carts[c.uid][c.pid] = Null
            /\ carts' = [carts EXCEPT ![c.uid][c.pid] =
                 [productId |-> c.pid, product |-> c.product, quantity |-> c.qty]]
       /\ (d.op = "addToCart" /\ d.pc = "failed") => carts' = carts
    ]_vars

\* an addToCart has returned after creating a line: the line holds the
\* requested quantity and the product as the call read it, which the seller
\* has changed since
C14_Witness ==
  \E s \in Slots :
    LET c == call[s] IN
    /\ c.op = "addToCart"
    /\ c.pc = "done"
    /\ c.newQuantity = 0
    /\ c.qty > 0
    /\ carts[c.uid][c.pid] = [productId |-> c.pid, product |-> c.product, quantity |-> c.qty]
    /\ products[c.pid] # c.product

\* C15: the step of checkout that passes a cart line builds the order line
\* from the product as it is in the store at that step: the unit price is the
\* product's current price and the subtotal that price times the line's
\* quantity, whatever price the cart line's snapshot holds; and the order is
\* stored with the lines so built.
C15_CurrentPriceUsed ==
  [][\A s \in Slots :
       LET c == call[s]
           d == call'[s]
       IN
       /\ (c.op = "checkout" /\ c.pc = "co_validate" /\ d # c /\ d.pc # "failed") =>
            LET cartItem == c.items[c.idx]
                p == products[cartItem.productId]
                item == d.orderItems[Len(d.orderItems)]
            IN  /\ Len(d.orderItems) = Len(c.orderItems) + 1
                /\ p # Null
                /\ item.priceAtPurchase = p.price
                /\ item.subtotal = p.price * cartItem.quantity
       /\ (c.op = "checkout" /\ c.pc = "co_addDoc" /\ d.pc # "failed" /\ d # c) =>
            /\ Len(orders') = Len(orders) + 1
            /\ orders'[Len(orders')].items = c.orderItems
    ]_vars

\* a checkout has stored its order, and a line of the order has a unit price
\* other than the price in the snapshot of the cart line it was built from
C15_Witness ==
  \E s \in Slots :
    LET c == call[s] IN
    /\ c.op = "checkout"
    /\ c.orderId \in 1..Len(orders)
    /\ Len(c.items) = Len(orders[c.orderId].items)
    /\ \E i \in 1..Len(c.items) :
         /\ orders[c.orderId].items[i].productId = c.items[i].productId
         /\ orders[c.orderId].items[i].priceAtPurchase # c.items[i].product.price

\* C16: orders are only ever appended: no step of the seller, of a cart
\* operation or of a checkout removes an order or changes a stored order's
\* lines (product name, quantity, price at purchase, subtotal), total,
\* customer or status.
C16_OrdersAppendOnly ==
  [][/\ Len(orders') >= Len(orders)
     /\ \A k \in 1..Len(orders) : orders'[k] = orders[k]
    ]_vars

\* a second order has been stored after the first, and the price of a product
\* of the first order is no longer the price the order holds
C16_Witness ==
  /\ Len(orders) = 2
  /\ \E i \in 1..Len(orders[1].items) :
       LET item == orders[1].items[i] IN
       /\ products[item.productId] # Null
       /\ products[item.productId].price # item.priceAtPurchase

\* C17: every stored order has status "completed".
C17_StatusCompleted ==
  \A k \in 1..Len(orders) : orders[k].status = "completed"

\* a checkout has stored its order and then failed before any stock was
\* written; the order is in the collection, as completed
C17_Witness ==
  \E s \in Slots :
    LET c == call[s] IN
    /\ c.op = "checkout"
    /\ c.pc = "failed"
    /\ c.writes = <<"order">>
    /\ c.orderId \in 1..Len(orders)
    /\ orders[c.orderId].status = "completed"

\* C18: the order a checkout stores has one line for each cart line the
\* checkout read, in the order it read them, and the i-th order line has the
\* product id and the quantity of the i-th cart line.
C18_LinesFollowCart ==
  [][\A s \in Slots :
       LET c == call[s] IN
       (c.op = "checkout" /\ c.pc = "co_addDoc" /\ Len(orders') > Len(orders)) =>
         LET order == orders'[Len(orders')] IN
         /\ Len(order.items) = Len(c.items)
         /\ \A i \in 1..Len(c.items) :
              /\ order.items[i].productId = c.items[i].productId
              /\ order.items[i].quantity = c.items[i].quantity
    ]_vars

\* a checkout that read two lines, the second product's line first, has
\* stored its order with that line first
C18_Witness ==
  \E s \in Slots :
    LET c == call[s] IN
    /\ c.op = "checkout"
    /\ c.orderId \in 1..Len(orders)
    /\ Len(c.items) = 2
    /\ c.items[1].productId > c.items[2].productId
    /\ Len(orders[c.orderId].items) = 2
    /\ orders[c.orderId].items[1].productId = c.items[1].productId

\* C19: a backend failure reaches the caller as an error: a step of a
\* checkout in which the read of a product that exists comes back empty (the
\* read failed) ends the checkout in an error.
C19_FailuresReachCaller ==
  [][\A s \in Slots :
       LET c == call[s]
           d == call'[s]
       IN
       /\ ( /\ c.op = "checkout" /\ c.pc = "co_validate" /\ d # c
            /\ products[c.items[c.idx].productId] # Null
            /\ d.orderItems = c.orderItems )
          => d.pc = "failed"
       /\ ( /\ c.op = "checkout" /\ c.pc = "co_batchRead" /\ d # c
            /\ products[c.orderItems[c.idx].productId] # Null
            /\ d.batch = c.batch )
          => d.pc = "failed"
    ]_vars

\* C20: ProtectedRoute shows its children only when auth loading has
\* finished, a user is signed in and the loaded profile's role is the route's
\* allowedRole; in every other state of the context it shows the spinner or
\* nothing.
C20_ChildrenOnlyWhenAuthorized ==
  page.location # "/login" =>
    LET authorized == /\ ~auth.loading
                      /\ auth.user # Null
                      /\ auth.userProfile # Null
                      /\ auth.userProfile.role = AllowedRoleAt(page.location)
    IN  /\ page.shown = "children" <=> authorized
        /\ page.shown \in {"spinner", "nothing", "children"}

\* a user who signed in after an earlier session ended is on the route of
\* their role, the profile is loaded, and the route shows its children
C20_Witness ==
  /\ page.location # "/login"
  /\ page.shown = "children"
  /\ auth.events > 1
  /\ ~auth.loading
  /\ auth.user # Null
  /\ auth.userProfile # Null
  /\ auth.userProfile.role = AllowedRoleAt(page.location)

\* C21: a protected route never stays blank: once no profile fetch is pending
\* and the effect that follows the render has run, the route does not show
\* nothing (the effect has pushed the router to /login or to the dashboard of
\* the profile's role).
C21_BlankPageRedirects ==
  ~( /\ page.location # "/login"
     /\ page.shown = "nothing"
     /\ ~page.effectDue
     /\ \A u \in Users : auth.fetching[u] = 0 )

\* a step in which the cart page calls createOrderFromCart
CheckoutCalled ==
  \E s \in Slots : /\ cartPage.awaiting[s] # "confirmCheckout"
                    /\ cartPage'.awaiting[s] = "confirmCheckout"

\* a stored cart line of customer u asks for more than the product has now
ShortOfStock(u, p) ==
  /\ carts[u][p] # Null
  /\ \/ products[p] = Null
     \/ carts[u][p].quantity > products[p].stock

C23_QuantityWithinStock ==
  (productPage.product # Null /\ productPage.changed) =>
     /\ productPage.quantity >= 1
     /\ productPage.quantity <= productPage.product.stock

\* C24: bulk delete is a set of independent deletes with no rollback. Every
\* step of a deleteMultipleProducts request changes the store by deleting at
\* most one product of the request; a product once deleted stays deleted,
\* also when the request goes on to fail; the first delete that is rejected
\* makes the request fail with the generic error while the other deletes are
\* left to run, and the failure is never withdrawn; the request succeeds only
\* with every product of the request gone.
C24_BulkDeleteNotAtomic ==
  [][ \A s \in Slots :
        LET c == call[s] IN
        (c.op = "deleteMultipleProducts" /\ call'[s] # c) =>
          /\ \/ products' = products
             \/ \E p \in c.productIds : /\ products[p] # Null
                                        /\ products' = [products EXCEPT ![p] = Null]
          /\ \A p \in ProductIds : products[p] = Null => products'[p] = Null
          /\ (c.pc = "dmp_all" /\ call'[s].pc = "failed") =>
               /\ call'[s].err.kind = "backend"
               /\ products' = products
               /\ call'[s].refs = c.refs \ (c.refs \ call'[s].refs)
               /\ Cardinality(c.refs \ call'[s].refs) = 1
          /\ c.pc = "failed" => call'[s].pc \in {"failed", "idle"}
          /\ call'[s].pc = "done" => \A p \in c.productIds : products'[p] = Null
          /\ carts' = carts /\ orders' = orders
    ]_vars

\* a bulk delete of both products has failed and is over: one product is
\* deleted, the other is still in the store
C24_Witness ==
  \E s \in Slots :
    /\ call[s].op = "deleteMultipleProducts"
    /\ call[s].pc = "failed"
    /\ call[s].refs = {}
    /\ \E p, q \in call[s].productIds :
         /\ call[s].stock0[p] >= 0 /\ products[p] = Null
         /\ products[q] # Null

\* the stored products with stock left
Listed == {p \in ProductIds : products[p] # Null /\ products[p].stock > 0}

\* C25: getAllProducts returns exactly the stored products whose stock is
\* greater than 0, each once and with its stored fields, newest first.
C25_ListsInStockNewestFirst ==
  \A r \in getAllProducts :
    /\ {r[i].id : i \in 1..Len(r)} = Listed
    /\ Len(r) = Cardinality(Listed)
    /\ \A i \in 1..Len(r) :
         /\ r[i].name = products[r[i].id].name
         /\ r[i].price = products[r[i].id].price
         /\ r[i].stock = products[r[i].id].stock
    /\ \A i, j \in 1..Len(r) : i < j => r[i].id > r[j].id

\* a checkout has taken a product's last unit: the product is still stored,
\* with stock 0, and the listing leaves it out
C25_Witness ==
  \E p \in ProductIds :
    /\ products[p] # Null /\ products[p].stock = 0
    /\ \E k \in 1..Len(orders) : \E i \in 1..Len(orders[k].items) :
         orders[k].items[i].productId = p
    /\ \A r \in getAllProducts : \A i \in 1..Len(r) : r[i].id # p

\* C26: no stored cart line has a quantity of zero or less.
C26_StoredQuantityPositive ==
  \A u \in Users, p \in ProductIds :
    carts[u][p] # Null => carts[u][p].quantity > 0

\* the customer a step of slot s works for
CallerOf(s) == IF call[s].pc = "idle" THEN call'[s].uid ELSE call[s].uid

\* C27: cart operations are scoped to one customer. A step of addToCart,
\* updateCartItemQuantity, removeFromCart, clearCart or checkout for customer
\* A leaves the cart of every other customer as it was, and getCartItems(A)
\* returns exactly the lines stored under A.
C27_CartsArePrivate ==
  [][ /\ \A s \in Slots :
           call'[s] # call[s] =>
             \A B \in Users : B # CallerOf(s) => carts'[B] = carts[B]
      /\ \A A \in Users : \A cartItems \in getCartItems(A) :
           /\ Len(cartItems) = Cardinality({p \in ProductIds : carts[A][p] # Null})
           /\ \A i \in 1..Len(cartItems) :
                cartItems[i] = carts[A][cartItems[i].productId]
    ]_vars

\* customer A's clearCart has emptied A's cart while another customer has a
\* line for a product A had in the cart
C27_Witness ==
  \E s \in Slots :
    /\ call[s].op = "clearCart" /\ call[s].pc = "done"
    /\ \E p \in call[s].refs, B \in Users :
         /\ carts[call[s].uid][p] = Null
         /\ B # call[s].uid
         /\ carts[B][p] # Null

RECURSIVE QuantityIn(_, _)
QuantityIn(items, p) ==
  IF items = <<>> THEN 0
  ELSE (IF items[1].productId = p THEN items[1].quantity ELSE 0) + QuantityIn(Tail(items), p)

RECURSIVE SoldIn(_, _)
SoldIn(os, p) ==
  IF os = <<>> THEN 0 ELSE QuantityIn(os[1].items, p) + SoldIn(Tail(os), p)

\* C28: no overselling under checkouts by different customers. With no order
\* placed before the first checkout began and no seller restocking, the
\* quantities of a product over all created orders add up to at most the
\* stock the product had when the first checkout began.
C28_NoOverselling ==
  (call[1].op = "checkout" /\ call[2].uid # call[1].uid) =>
    \A p \in ProductIds : SoldIn(orders, p) <= call[1].stock0[p]

\* C29: AuthProvider holds no profile for a signed-out session: whenever
\* loading is false and user is null, userProfile is null.
C29_NoProfileWhenSignedOut ==
  (~auth.loading /\ auth.user = Null) => auth.userProfile = Null

\* every handleUpdateQuantity of the cart page has completed, its reload
\* after an error included, the latest load of the cart went through, and the
\* list is on screen
UpdatesSettled ==
  /\ cartPage.uid # ""
  /\ \A s \in Slots : cartPage.awaiting[s] = "none" /\ call[s].pc = "idle"
  /\ cartPage.loads = 0 /\ ~cartPage.loading
  /\ ~cartPage.loadFailed

\* C30: on the cart page, once every handleUpdateQuantity call has completed
\* and no checkout has been made, each displayed line shows the quantity the
\* backend stores for it.
C30_DisplayMatchesStore ==
  (UpdatesSettled /\ orders = <<>> /\ cartPage.modal # "success") =>
    \A p \in ProductIds :
      /\ (cartPage.cartItems[p] = Null) = (carts[cartPage.uid][p] = Null)
      /\ cartPage.cartItems[p] # Null =>
           cartPage.cartItems[p].quantity = carts[cartPage.uid][p].quantity
====
